---- MODULE Spec2Model ----
(***************************************************************************)
(* Model of rulevis' graph construction (src/internal/generator.py):       *)
(* GraphGenerator.build_graph_from_xml and the functions it calls.         *)
(*                                                                         *)
(* Texts are sequences of one-character strings, so that the splitting of  *)
(* if_sid / if_group / group fields is computed as the code computes it.   *)
(* An optional value (Python None, or a missing attribute / dict key) is   *)
(* <<>> and a present value v is <<v>>.                                    *)
(***************************************************************************)
EXTENDS Integers, Sequences, FiniteSets, TLC

VARIABLES pc, file_idx, stack, n_rules,
          G, group_membership, overwrite_rules, ow_idx, base_defined,
          ow_seen, skipped, stats, heatmap,
          xml_content, sanitized, artifacts, outcome, response

\* pc               where build_graph_from_xml stands: "files" (between two
\*                  files of the loop), "parse" (walking a parsed file),
\*                  "overwrite" (second pass), "children", "done", "raised"
\* file_idx         number of entries of xml_files taken so far
\* stack            the open calls of parse_groups_and_rules on <group> elements
\* n_rules          number of <rule> elements processed so far
\* G                self.G
\* group_membership self.group_membership
\* overwrite_rules  self.overwrite_rules
\* ow_idx           position of the second pass in overwrite_rules
\* base_defined     history: the identifiers of the base (non-overwrite) rule
\*                  elements processed so far
\* ow_seen          history: for each overwrite element processed so far, its
\*                  id attribute, its file, and whether a base rule element
\*                  of that id had been processed before it
\* skipped          history: the positions in xml_files of the files whose
\*                  text failed to parse
\* stats            the result of Analyzer.calculate_statistics, once called
\* heatmap          the result of Analyzer.calculate_heatmap_data, once called
\* xml_content      the text read from a file
\* sanitized        that text after __remove_regex_field and after __escape_amp,
\*                  once computed
\* artifacts        what the graph, statistics and heatmap files hold
\* outcome          how create_app and Analyzer() ended, once called
\* response         the reply of POST /api/edges, once called
vars == <<pc, file_idx, stack, n_rules,
          G, group_membership, overwrite_rules, ow_idx, base_defined,
          ow_seen, skipped, stats, heatmap,
          xml_content, sanitized, artifacts, outcome, response>>

\* ---------------------------------------------------------------- bounds
MaxFiles == 2
MaxRules == 2
MaxDepth == 1

\* ------------------------------------------------------- optional values
None == <<>>

Some(v) == <<v>>

\* no artifact file is looked at yet
NoArtifacts == [graph |-> "valid", stats |-> "valid", heatmap |-> "valid"]

\* neither create_app nor Analyzer() has been called
NoOutcome == [create_app |-> None, Analyzer |-> None]

\* dict.get(key, default) / element.get(attr, default)
Get(o, default) == IF o = None THEN default ELSE o[1]

Range(q) == {q[i] : i \in 1..Len(q)}

\* ------------------------------------------------------------- strings
WS == {" "}

\* the separator class of the pattern [,\s]+
SepChars == {","} \cup WS

RECURSIVE LStrip(_)
LStrip(s) == IF s = <<>> THEN s
             ELSE IF Head(s) \in WS THEN LStrip(Tail(s)) ELSE s

RECURSIVE RStrip(_)
RStrip(s) == IF s = <<>> THEN s
             ELSE IF s[Len(s)] \in WS THEN RStrip(SubSeq(s, 1, Len(s) - 1)) ELSE s

\* str.strip()
Strip(s) == RStrip(LStrip(s))

RECURSIVE SkipSep(_, _)
SkipSep(s, i) == IF i <= Len(s) /\ s[i] \in SepChars THEN SkipSep(s, i + 1) ELSE i

RECURSIVE ReSplitFrom(_, _, _)
ReSplitFrom(s, i, cur) ==
    IF i > Len(s) THEN <<cur>>
    ELSE IF s[i] \in SepChars
         THEN <<cur>> \o ReSplitFrom(s, SkipSep(s, i), <<>>)
         ELSE ReSplitFrom(s, i + 1, Append(cur, s[i]))

\* re.split(r'[,\s]+', s): the pieces between maximal separator runs; a
\* leading or trailing run, and the empty text, yield an empty piece
ReSplit(s) == ReSplitFrom(s, 1, <<>>)

RECURSIVE SplitCommaFrom(_, _, _)
SplitCommaFrom(s, i, cur) ==
    IF i > Len(s) THEN <<cur>>
    ELSE IF s[i] = ","
         THEN <<cur>> \o SplitCommaFrom(s, i + 1, <<>>)
         ELSE SplitCommaFrom(s, i + 1, Append(cur, s[i]))

\* s.split(',')
SplitComma(s) == SplitCommaFrom(s, 1, <<>>)

NonEmptyOnly(q) == SelectSeq(q, LAMBDA x : x # <<>>)

\* str.lower() on the values of the overwrite attribute
Lower(s) == CASE s = "YES" -> "yes"
              [] s = "Yes" -> "yes"
              [] OTHER -> s

RECURSIVE JoinSpace(_)
\* ' '.join(fragments)
JoinSpace(q) == IF Len(q) = 0 THEN <<>>
                ELSE IF Len(q) = 1 THEN <<q[1]>>
                ELSE <<q[1], " ">> \o JoinSpace(Tail(q))

RECURSIVE Flatten(_)
Flatten(qq) == IF qq = <<>> THEN <<>> ELSE Head(qq) \o Flatten(Tail(qq))

\* os.path.basename of a path given as its components
Basename(path) == path[Len(path)]

\* ------------------------------------------------------ the multigraph
\* attribute dict of a node created without attributes
EmptyAttrs == [groups |-> None, description |-> None, level |-> None,
               file |-> None, maxsize |-> None, children_ids |-> None]

\* nx.MultiDiGraph(): nodes in insertion order, their attribute dicts, and
\* the edges in insertion order (parallel edges are separate entries)
EmptyGraph == [nodes |-> <<>>, attr |-> <<>>, edges |-> <<>>]

HasNode(g, n) == n \in Range(g.nodes)

\* node creation as add_edge does it: no attributes, existing node untouched
TouchNode(g, n) ==
    IF HasNode(g, n) THEN g
    ELSE [g EXCEPT !.nodes = Append(@, n), !.attr = Append(@, <<n, EmptyAttrs>>)]

NodeIndex(g, n) == CHOOSE i \in 1..Len(g.nodes) : g.nodes[i] = n

\* G.nodes[n]
NodeAttrs(g, n) == g.attr[NodeIndex(g, n)][2]

SetAttrs(g, n, a) == [g EXCEPT !.attr[NodeIndex(g, n)] = <<n, a>>]

\* G.nodes.get(n): None for an unknown node, else its attribute dict
NodesGet(g, n) == IF HasNode(g, n) THEN Some(NodeAttrs(g, n)) ELSE None

\* faulty variant: a simple graph, one edge per ordered pair, whose kind is
\* that of the latest add_edge
add_edge_merging(g, source, target, relation_type) ==
    LET g2 == TouchNode(TouchNode(g, source), target)
        new == [src |-> source, dst |-> target, relation_type |-> relation_type]
    IN  IF \E i \in DOMAIN g2.edges : g2.edges[i].src = source /\ g2.edges[i].dst = target
        THEN [g2 EXCEPT !.edges = [i \in DOMAIN g2.edges |->
                                     IF g2.edges[i].src = source /\ g2.edges[i].dst = target
                                     THEN new ELSE g2.edges[i]]]
        ELSE [g2 EXCEPT !.edges = Append(@, new)]

\* faulty variant: the endpoints are exchanged
add_edge_swapped(g, source, target, relation_type) ==
    LET g1 == TouchNode(TouchNode(g, target), source)
    IN  [g1 EXCEPT !.edges = Append(@, [src |-> target, dst |-> source,
                                        relation_type |-> relation_type])]

\* self.G.add_edge(source, target, relation_type=relation_type): creates the
\* endpoints that are missing and always adds a new parallel edge
add_edge_with_type(g, source, target, relation_type) ==
    LET g1 == TouchNode(TouchNode(g, source), target)
    IN  [g1 EXCEPT !.edges = Append(@, [src |-> source, dst |-> target,
                                        relation_type |-> relation_type])]

in_degree(g, n) == Cardinality({i \in 1..Len(g.edges) : g.edges[i].dst = n})

out_degree(g, n) == Cardinality({i \in 1..Len(g.edges) : g.edges[i].src = n})

RECURSIVE Dedup(_)
Dedup(q) == IF q = <<>> THEN <<>>
            ELSE LET r == Dedup(SubSeq(q, 1, Len(q) - 1))
                 IN  IF q[Len(q)] \in Range(r) THEN r ELSE Append(r, q[Len(q)])

\* faulty variant: one entry per out-edge
successors_per_edge(g, n) ==
    [i \in 1..Len(SelectSeq(g.edges, LAMBDA e : e.src = n)) |->
        SelectSeq(g.edges, LAMBDA e : e.src = n)[i].dst]

\* list(G.successors(n)): the distinct targets of n's out-edges
successors(g, n) ==
    Dedup([i \in 1..Len(SelectSeq(g.edges, LAMBDA e : e.src = n)) |->
              SelectSeq(g.edges, LAMBDA e : e.src = n)[i].dst])

\* G.add_node(n, **upd): creates n, or updates the attributes of an existing n
add_node(g, n, upd) ==
    LET g1 == TouchNode(g, n)
        old == NodeAttrs(g1, n)
    IN  SetAttrs(g1, n, [k \in DOMAIN EmptyAttrs |->
                            IF k \in DOMAIN upd THEN Some(upd[k]) ELSE old[k]])

\* ------------------------------------------------------ the group index
\* defaultdict(list), as <<group, members>> entries in insertion order
gm_has(gm, group) == \E i \in 1..Len(gm) : gm[i][1] = group

\* self.group_membership.get(group, [])
gm_get(gm, group) ==
    IF gm_has(gm, group)
    THEN gm[CHOOSE i \in 1..Len(gm) : gm[i][1] = group][2]
    ELSE <<>>

\* self.group_membership[group].append(rule_id)
gm_append(gm, group, rule_id) ==
    IF gm_has(gm, group)
    THEN [i \in 1..Len(gm) |->
             IF gm[i][1] = group THEN <<group, Append(gm[i][2], rule_id)>> ELSE gm[i]]
    ELSE Append(gm, <<group, <<rule_id>> >>)

RECURSIVE gm_register(_, _, _)
\* for group in all_groups: self.group_membership[group].append(rule_id)
gm_register(gm, all_groups, rule_id) ==
    IF all_groups = <<>> THEN gm
    ELSE gm_register(gm_append(gm, Head(all_groups), rule_id), Tail(all_groups), rule_id)

\* ------------------------------------------------------ rule elements
\* a <rule> element: its attributes (id, overwrite, level, maxsize), the
\* text of its first if_* children, the texts of its <group> children and
\* of its <description> children
Blank == [id |-> None, overwrite |-> None, level |-> None, maxsize |-> None,
          if_sid |-> None, if_matched_sid |-> None,
          if_group |-> None, if_matched_group |-> None,
          group |-> <<>>, description |-> <<>>]

PlainRules ==
    {[Blank EXCEPT !.description = <<"d1">>],
     [Blank EXCEPT !.id = Some(<<"1">>), !.level = Some("3"),
                   !.group = << <<"g">> >>, !.description = <<"d1">>],
     [Blank EXCEPT !.id = Some(<<"1">>),
                   !.group = << <<"g", ",", ",", "h">>, <<>>, <<"g">> >>,
                   !.description = <<"d1", "", "d2">>]}

SidRules ==
    {[Blank EXCEPT !.id = Some(<<"1">>), !.if_sid = Some(<<"1">>)],
     [Blank EXCEPT !.id = Some(<<"1">>), !.if_sid = Some(<<"2">>)],
     [Blank EXCEPT !.id = Some(<<"0">>), !.if_sid = Some(<<"1">>)],
     [Blank EXCEPT !.id = Some(<<"2">>), !.overwrite = Some("no"),
                   !.if_sid = Some(<<"1">>), !.description = <<"d2">>],
     [Blank EXCEPT !.id = Some(<<"2">>), !.if_sid = Some(<<",", "1", ",", " ", "1">>)],
     [Blank EXCEPT !.id = Some(<<"2">>), !.if_sid = Some(<<" ">>)]}

GroupRules ==
    {[Blank EXCEPT !.id = Some(<<"2">>), !.if_group = Some(<<"g">>),
                   !.group = << <<"g">> >>],
     [Blank EXCEPT !.id = Some(<<"2">>), !.if_sid = Some(<<"1">>),
                   !.if_group = Some(<<"h", ",", "g">>)],
     [Blank EXCEPT !.id = Some(<<"2">>), !.if_matched_sid = Some(<<"1">>),
                   !.if_matched_group = Some(<<"g">>)]}

OverwriteRules ==
    {[Blank EXCEPT !.overwrite = Some("yes"), !.description = <<"d2">>],
     [Blank EXCEPT !.id = Some(<<"1">>), !.overwrite = Some("yes"),
                   !.description = <<"d2">>],
     [Blank EXCEPT !.id = Some(<<"2">>), !.overwrite = Some("YES"),
                   !.level = Some("9"), !.maxsize = Some("64"),
                   !.if_sid = Some(<<"1">>), !.if_group = Some(<<"g">>),
                   !.group = << <<"h">> >>]}

\* the <rule> elements the input files are made of
RuleElements == PlainRules \cup SidRules \cup GroupRules \cup OverwriteRules

\* the name attribute of a <group> element at nesting depth d (1 = top level)
GroupNameAttrs(d) == IF d % 2 = 1 THEN {Some(<<"g", ",">>)} ELSE {Some(<<",", "h">>)}

\* the i-th path of get_all_xml_files(), as its components
XmlFile(i) == <<"rules", i>>

\* ------------------------------------------------------ parsing a rule
\* truth value of an optional text (None and '' are false)
TruthyText(o) == o # None /\ o[1] # <<>>

\* truth value of an optional attribute string
TruthyStr(o) == o # None /\ o[1] # ""

\* element.get("overwrite", "").lower() == "yes"
is_overwrite(el) == Lower(Get(el.overwrite, "")) = "yes"

\* rule_id = element.get('id', '0')
rule_id_of(el) == Get(el.id, <<"0">>)

extract_rule_groups(inherited_groups, group_texts) ==
    inherited_groups \o
    Flatten([i \in 1..Len(group_texts) |->
                IF group_texts[i] # <<>>
                THEN NonEmptyOnly(SplitComma(group_texts[i]))
                ELSE <<>>])

extract_rule_description(fragments) ==
    LET description == SelectSeq(fragments, LAMBDA d : d # "")
    IN  IF Len(description) > 0 THEN Some(JoinSpace(description)) ELSE None

RECURSIVE add_edges(_, _, _, _)
\* for source in sources: self.add_edge_with_type(source, rule_id, kind)
add_edges(g, sources, rule_id, kind) ==
    IF sources = <<>> THEN g
    ELSE add_edges(add_edge_with_type(g, Head(sources), rule_id, kind),
                   Tail(sources), rule_id, kind)

\* the targets of an if_sid / if_matched_sid text: each piece of
\* re.split(r'[,\s]+', text.strip()), stripped
sid_list(text) ==
    LET pieces == ReSplit(Strip(text))
    IN  [i \in 1..Len(pieces) |-> Strip(pieces[i])]

\* the members, at this moment, of the groups of an if_group text
group_parents(gm, text) ==
    LET groups == ReSplit(Strip(text))
    IN  Flatten([i \in 1..Len(groups) |-> gm_get(gm, Strip(groups[i]))])

add_relationship_edges(g, gm, rule_id, if_sid, if_matched_sid, if_group, if_matched_group) ==
    LET g1 == IF TruthyText(if_sid)
              THEN add_edges(g, sid_list(if_sid[1]), rule_id, "if_sid") ELSE g
        g2 == IF TruthyText(if_matched_sid)
              THEN add_edges(g1, sid_list(if_matched_sid[1]), rule_id, "if_matched_sid")
              ELSE g1
        g3 == IF TruthyText(if_group)
              THEN add_edges(g2, group_parents(gm, if_group[1]), rule_id, "if_group")
              ELSE g2
        g4 == IF TruthyText(if_matched_group)
              THEN add_edges(g3, group_parents(gm, if_matched_group[1]), rule_id,
                             "if_matched_group")
              ELSE g3
    IN  g4

\* faulty variant: no duplicate test, a later definition is merged in
never_duplicate(g, rule_id) == FALSE

\* self.G.nodes.get(rule_id) is not None
is_duplicate(g, rule_id) == NodesGet(g, rule_id) # None

\* the inherited groups of the innermost open <group> element
inherited_now == IF stack = <<>> THEN <<>> ELSE stack[Len(stack)].new_inherited_groups

\* ------------------------------------------------------ the overwrite pass
\* faulty variant: the overwrite also resolves its if_sid field
apply_overwrite_relinks(g, element, ow_file) ==
    LET rule_id == element.id
    IN  IF rule_id # None /\ HasNode(g, rule_id[1])
        THEN LET g1 == add_node(g, rule_id[1], [file |-> Basename(ow_file)])
             IN  IF TruthyText(element.if_sid)
                 THEN add_edges(g1, sid_list(element.if_sid[1]), rule_id[1], "if_sid")
                 ELSE g1
        ELSE g

\* faulty variant: the description is assigned even when the overwrite has none
apply_overwrite_blanks(g, element, ow_file) ==
    LET rule_id == element.id
    IN  IF rule_id # None /\ HasNode(g, rule_id[1])
        THEN LET existing == NodeAttrs(g, rule_id[1])
                 desc == extract_rule_description(element.description)
             IN  SetAttrs(g, rule_id[1],
                          [existing EXCEPT !.description = Some(desc),
                                           !.file = Some(Basename(ow_file))])
        ELSE g

\* one iteration of the loop over self.overwrite_rules
apply_overwrite(g, element, ow_file) ==
    LET rule_id == element.id
    IN  IF rule_id # None /\ HasNode(g, rule_id[1])
        THEN LET existing == NodeAttrs(g, rule_id[1])
                 desc == extract_rule_description(element.description)
                 e1 == IF desc # None /\ desc[1] # <<>>
                       THEN [existing EXCEPT !.description = Some(desc)] ELSE existing
                 e2 == IF TruthyStr(element.level)
                       THEN [e1 EXCEPT !.level = Some(element.level)] ELSE e1
                 e3 == IF TruthyStr(element.maxsize)
                       THEN [e2 EXCEPT !.maxsize = Some(element.maxsize)] ELSE e2
                 e4 == [e3 EXCEPT !.file = Some(Basename(ow_file))]
             IN  SetAttrs(g, rule_id[1], e4)
        ELSE g

\* ------------------------------------------------------ root synthesis
synthetic_root == <<"0">>

\* faulty variant: only nodes without any edge are taken
first_level_rules_isolated(g) ==
    SelectSeq(g.nodes, LAMBDA node : in_degree(g, node) = 0 /\ out_degree(g, node) = 0)

\* [node for node in self.G.nodes if self.G.in_degree(node) == 0]
first_level_rules(g) == SelectSeq(g.nodes, LAMBDA node : in_degree(g, node) = 0)

RECURSIVE add_root_edges(_, _)
\* for node in first_level_rules: add_edge_with_type(synthetic_root, node, "root")
add_root_edges(g, targets) ==
    IF targets = <<>> THEN g
    ELSE add_root_edges(add_edge_with_type(g, synthetic_root, Head(targets), "root"),
                        Tail(targets))

RECURSIVE set_children(_, _)
\* self.G.nodes[node_id]['children_ids'] = list(self.G.successors(node_id))
set_children(g, todo) ==
    IF todo = <<>> THEN g
    ELSE LET n == Head(todo)
             a == NodeAttrs(g, n)
         IN  set_children(SetAttrs(g, n, [a EXCEPT !.children_ids = Some(successors(g, n))]),
                          Tail(todo))

\* ------------------------------------------------------ the build
Init ==
    /\ pc = "files"
    /\ file_idx = 0
    /\ stack = <<>>
    /\ n_rules = 0
    /\ G = EmptyGraph
    /\ group_membership = <<>>
    /\ overwrite_rules = <<>>
    /\ ow_idx = 1
    /\ base_defined = {}
    /\ ow_seen = <<>>
    /\ skipped = {}
    /\ stats = None
    /\ heatmap = None
    /\ xml_content = <<>>
    /\ sanitized = None
    /\ artifacts = NoArtifacts
    /\ outcome = NoOutcome
    /\ response = None

\* the next file is read and parsed: its top-level elements are walked
open_file ==
    /\ pc = "files"
    /\ file_idx < MaxFiles
    /\ file_idx' = file_idx + 1
    /\ pc' = "parse"
    /\ stack' = <<>>
    /\ UNCHANGED <<n_rules, G, group_membership, overwrite_rules,
                   ow_idx, base_defined,
                   ow_seen, skipped, stats, heatmap,
                   xml_content, sanitized, artifacts, outcome, response>>

\* open/read raises OSError: logged, continue with the next file
read_error ==
    /\ pc = "files"
    /\ file_idx < MaxFiles
    /\ file_idx' = file_idx + 1
    /\ UNCHANGED <<pc, stack, n_rules, G, group_membership,
                   overwrite_rules, ow_idx, base_defined,
                   ow_seen, skipped, stats, heatmap,
                   xml_content, sanitized, artifacts, outcome, response>>

\* reading raises an exception that is not an OSError (UnicodeDecodeError):
\* nothing catches it and build_graph_from_xml is left
read_raises ==
    /\ pc = "files"
    /\ file_idx < MaxFiles
    /\ file_idx' = file_idx + 1
    /\ pc' = "raised"
    /\ UNCHANGED <<stack, n_rules, G, group_membership,
                   overwrite_rules, ow_idx, base_defined,
                   ow_seen, skipped, stats, heatmap,
                   xml_content, sanitized, artifacts, outcome, response>>

\* faulty variant: the elements before the malformed place are processed
parse_error_partial ==
    /\ pc = "files"
    /\ file_idx < MaxFiles
    /\ file_idx' = file_idx + 1
    /\ skipped' = skipped \cup {file_idx'}
    /\ G' = add_node(G, <<"9">>, [groups |-> <<>>, description |-> None, level |-> None,
                                 file |-> Basename(XmlFile(file_idx'))])
    /\ UNCHANGED <<pc, stack, n_rules, group_membership,
                   overwrite_rules, ow_idx, base_defined,
                   ow_seen, stats, heatmap,
                   xml_content, sanitized, artifacts, outcome, response>>

\* ET.fromstring raises on the sanitized text: logged, file skipped
parse_error ==
    /\ pc = "files"
    /\ file_idx < MaxFiles
    /\ file_idx' = file_idx + 1
    /\ skipped' = skipped \cup {file_idx'}
    /\ UNCHANGED <<pc, stack, n_rules, G, group_membership,
                   overwrite_rules, ow_idx, base_defined,
                   ow_seen, stats, heatmap,
                   xml_content, sanitized, artifacts, outcome, response>>

\* the history entry of an overwrite element processed now
seen_entry(el) ==
    [id |-> el.id, file |-> XmlFile(file_idx),
     early |-> el.id # None /\ el.id[1] \notin base_defined]

\* faulty variant: the overwrite is applied at once, to the graph as it is
\* when the element is met, and is not queued
parse_rule_overwrite_eager(el) ==
    /\ pc = "parse"
    /\ n_rules < MaxRules
    /\ is_overwrite(el)
    /\ G' = apply_overwrite(G, el, XmlFile(file_idx))
    /\ ow_seen' = Append(ow_seen, seen_entry(el))
    /\ n_rules' = n_rules + 1
    /\ UNCHANGED <<pc, file_idx, stack, group_membership, overwrite_rules,
                   ow_idx, base_defined, skipped, stats, heatmap,
                   xml_content, sanitized, artifacts, outcome, response>>

\* faulty variant: the overwrite is queued and its if_* fields are resolved
parse_rule_overwrite_links(el) ==
    /\ pc = "parse"
    /\ n_rules < MaxRules
    /\ is_overwrite(el)
    /\ overwrite_rules' = Append(overwrite_rules, <<el, XmlFile(file_idx)>>)
    /\ G' = add_relationship_edges(G, group_membership, rule_id_of(el),
                                   el.if_sid, el.if_matched_sid,
                                   el.if_group, el.if_matched_group)
    /\ ow_seen' = Append(ow_seen, seen_entry(el))
    /\ n_rules' = n_rules + 1
    /\ UNCHANGED <<pc, file_idx, stack, group_membership,
                   ow_idx, base_defined, skipped, stats, heatmap,
                   xml_content, sanitized, artifacts, outcome, response>>

\* parse_groups_and_rules on a <rule> flagged overwrite="yes"
parse_rule_overwrite(el) ==
    /\ pc = "parse"
    /\ n_rules < MaxRules
    /\ is_overwrite(el)
    /\ overwrite_rules' = Append(overwrite_rules, <<el, XmlFile(file_idx)>>)
    /\ ow_seen' = Append(ow_seen, seen_entry(el))
    /\ n_rules' = n_rules + 1
    /\ UNCHANGED <<pc, file_idx, stack, G, group_membership,
                   ow_idx, base_defined, skipped, stats, heatmap,
                   xml_content, sanitized, artifacts, outcome, response>>

\* parse_groups_and_rules on a <rule> that is not an overwrite
parse_rule_base(el) ==
    /\ pc = "parse"
    /\ n_rules < MaxRules
    /\ ~is_overwrite(el)
    /\ LET rule_id == rule_id_of(el)
           rule_level == el.level
           rule_description == extract_rule_description(el.description)
           all_groups == extract_rule_groups(inherited_now, el.group)
       IN  IF is_duplicate(G, rule_id)
           THEN UNCHANGED <<G, group_membership>>
           ELSE /\ group_membership' = gm_register(group_membership, all_groups, rule_id)
                /\ G' = add_relationship_edges(
                            add_node(G, rule_id,
                                     [groups |-> all_groups,
                                      description |-> rule_description,
                                      level |-> rule_level,
                                      file |-> Basename(XmlFile(file_idx))]),
                            group_membership', rule_id,
                            el.if_sid, el.if_matched_sid, el.if_group, el.if_matched_group)
    /\ base_defined' = base_defined \cup {rule_id_of(el)}
    /\ n_rules' = n_rules + 1
    /\ UNCHANGED <<pc, file_idx, stack, overwrite_rules, ow_idx,
                   ow_seen, skipped, stats, heatmap,
                   xml_content, sanitized, artifacts, outcome, response>>

\* parse_groups_and_rules on a <group> element: the call for its children
parse_group(name) ==
    /\ pc = "parse"
    /\ Len(stack) < MaxDepth
    /\ LET group_attribute == Get(name, <<>>)
           internal_groups == NonEmptyOnly(SplitComma(group_attribute))
       IN  stack' = Append(stack, [name |-> name,
                                   inherited_groups |-> inherited_now,
                                   new_inherited_groups |-> inherited_now \o internal_groups])
    /\ UNCHANGED <<pc, file_idx, n_rules, G, group_membership, overwrite_rules,
                   ow_idx, base_defined,
                   ow_seen, skipped, stats, heatmap,
                   xml_content, sanitized, artifacts, outcome, response>>

\* the children of the innermost <group> are exhausted: the call returns
end_group ==
    /\ pc = "parse"
    /\ stack # <<>>
    /\ stack' = SubSeq(stack, 1, Len(stack) - 1)
    /\ UNCHANGED <<pc, file_idx, n_rules, G, group_membership,
                   overwrite_rules, ow_idx, base_defined,
                   ow_seen, skipped, stats, heatmap,
                   xml_content, sanitized, artifacts, outcome, response>>

\* the top-level elements of the file are exhausted
end_file ==
    /\ pc = "parse"
    /\ stack = <<>>
    /\ pc' = "files"
    /\ UNCHANGED <<file_idx, stack, n_rules, G, group_membership,
                   overwrite_rules, ow_idx, base_defined,
                   ow_seen, skipped, stats, heatmap,
                   xml_content, sanitized, artifacts, outcome, response>>

\* xml_files is exhausted: the second pass starts
end_files ==
    /\ pc = "files"
    /\ pc' = "overwrite"
    /\ ow_idx' = 1
    /\ UNCHANGED <<file_idx, stack, n_rules, G, group_membership,
                   overwrite_rules, base_defined,
                   ow_seen, skipped, stats, heatmap,
                   xml_content, sanitized, artifacts, outcome, response>>

\* one iteration of the second pass
overwrite_step ==
    /\ pc = "overwrite"
    /\ ow_idx <= Len(overwrite_rules)
    /\ G' = apply_overwrite(G, overwrite_rules[ow_idx][1], overwrite_rules[ow_idx][2])
    /\ ow_idx' = ow_idx + 1
    /\ UNCHANGED <<pc, file_idx, stack, n_rules, group_membership,
                   overwrite_rules, base_defined,
                   ow_seen, skipped, stats, heatmap,
                   xml_content, sanitized, artifacts, outcome, response>>

\* first_level_rules, the synthetic root and its edges
root_synthesis ==
    /\ pc = "overwrite"
    /\ ow_idx > Len(overwrite_rules)
    /\ LET first == first_level_rules(G)
           g1 == add_node(G, synthetic_root,
                          [description |-> Some(<<"Synthetic root node">>),
                           groups |-> << <<"__meta__">> >>])
       IN  G' = add_root_edges(g1, first)
    /\ pc' = "children"
    /\ UNCHANGED <<file_idx, stack, n_rules, group_membership,
                   overwrite_rules, ow_idx, base_defined,
                   ow_seen, skipped, stats, heatmap,
                   xml_content, sanitized, artifacts, outcome, response>>

\* the children_ids of every node
precompute_children ==
    /\ pc = "children"
    /\ G' = set_children(G, G.nodes)
    /\ pc' = "done"
    /\ UNCHANGED <<file_idx, stack, n_rules, group_membership,
                   overwrite_rules, ow_idx, base_defined,
                   ow_seen, skipped, stats, heatmap,
                   xml_content, sanitized, artifacts, outcome, response>>

Next ==
    \/ open_file
    \/ read_error
    \/ read_raises
    \/ parse_error
    \/ \E el \in RuleElements : parse_rule_overwrite(el)
    \/ \E el \in RuleElements : parse_rule_base(el)
    \/ \E name \in GroupNameAttrs(Len(stack) + 1) : parse_group(name)
    \/ end_group
    \/ end_file
    \/ end_files
    \/ overwrite_step
    \/ root_synthesis
    \/ precompute_children

Spec == Init /\ [][Next]_vars

\* ------------------------------------------------------ the second pass alone
\* The build from the moment xml_files is exhausted, for queues longer than
\* the parse pass above makes them.
MaxQueue == 2

\* the overwrite elements of the queue: those above, and one that has a
\* level and an empty <description>
PassOverwrites ==
    OverwriteRules \cup
    {[Blank EXCEPT !.id = Some(<<"1">>), !.overwrite = Some("yes"),
                   !.level = Some("5"), !.description = <<"">>]}

\* the base rule element the first file consisted of
PassBaseRules ==
    {[Blank EXCEPT !.id = Some(<<"1">>), !.level = Some("3"),
                   !.group = << <<"g">> >>, !.description = <<"d1">>],
     [Blank EXCEPT !.id = Some(<<"1">>), !.if_sid = Some(<<"2">>)]}

\* the queue entries: an overwrite element and the file it was met in
PassEntries == {<<el, XmlFile(i)>> : el \in PassOverwrites, i \in 1..MaxFiles}

PassQueues == UNION {[1..n -> PassEntries] : n \in 0..MaxQueue}

\* the state at the end of the parse pass when the first file held one base
\* rule element and the overwrite elements of the queue followed it
PassInit ==
    \E el \in PassBaseRules, queue \in PassQueues :
        LET rule_id == rule_id_of(el)
            all_groups == extract_rule_groups(<<>>, el.group)
            gm == gm_register(<<>>, all_groups, rule_id)
        IN  /\ pc = "overwrite"
            /\ file_idx = MaxFiles
            /\ stack = <<>>
            /\ n_rules = 1 + Len(queue)
            /\ group_membership = gm
            /\ G = add_relationship_edges(
                       add_node(EmptyGraph, rule_id,
                                [groups |-> all_groups,
                                 description |-> extract_rule_description(el.description),
                                 level |-> el.level,
                                 file |-> Basename(XmlFile(1))]),
                       gm, rule_id,
                       el.if_sid, el.if_matched_sid, el.if_group, el.if_matched_group)
            /\ overwrite_rules = queue
            /\ ow_idx = 1
            /\ base_defined = {rule_id}
            /\ ow_seen = [i \in DOMAIN queue |->
                             [id |-> queue[i][1].id, file |-> queue[i][2], early |-> FALSE]]
            /\ skipped = {}
            /\ stats = None
            /\ heatmap = None
            /\ xml_content = <<>>
            /\ sanitized = None
            /\ artifacts = NoArtifacts
            /\ outcome = NoOutcome
            /\ response = None

PassNext ==
    \/ overwrite_step
    \/ root_synthesis
    \/ precompute_children

PassSpec == PassInit /\ [][PassNext]_vars

\* ------------------------------------------------------ the analyzer
\* Analyzer (src/internal/analyzer.py) on the graph it loaded; G is self.G.

\* the length of the top lists: sorted(...)[:5]
TopN == 5

\* the default of the block_size parameter, the only value it is called with
BlockSize == 10

\* [n for n in self.G.nodes() if n != '0']
real_nodes(g) == SelectSeq(g.nodes, LAMBDA n : n # <<"0">>)

RECURSIVE forward(_, _)
\* the set S and the nodes reachable from it
forward(g, S) ==
    LET T == S \cup {e.dst : e \in {x \in Range(g.edges) : x.src \in S}}
    IN  IF T = S THEN S ELSE forward(g, T)

RECURSIVE backward(_, _)
\* the set S and the nodes it is reachable from
backward(g, S) ==
    LET T == S \cup {e.src : e \in {x \in Range(g.edges) : x.dst \in S}}
    IN  IF T = S THEN S ELSE backward(g, T)

\* networkx.descendants: the nodes reachable from n, n itself excluded
descendants(g, n) == forward(g, {n}) \ {n}

\* networkx.ancestors: the nodes n is reachable from, n itself excluded
ancestors(g, n) == backward(g, {n}) \ {n}

\* list(G.predecessors(n)): the distinct sources of the edges into n
predecessors(g, n) ==
    LET into == SelectSeq(g.edges, LAMBDA e : e.dst = n)
    IN  Dedup([i \in 1..Len(into) |-> into[i].src])

\* the first n elements of a list: seq[:n]
Take(seq, n) == SubSeq(seq, 1, IF Len(seq) < n THEN Len(seq) ELSE n)

RECURSIVE sorted_desc_unstable(_, _)
\* faulty variant: among keys of equal count the last one comes first
sorted_desc_unstable(keys, count) ==
    IF keys = <<>> THEN <<>>
    ELSE LET best == CHOOSE i \in 1..Len(keys) :
                        /\ \A j \in 1..Len(keys) : count[keys[j]] <= count[keys[i]]
                        /\ \A j \in (i + 1)..Len(keys) : count[keys[j]] < count[keys[i]]
         IN  <<keys[best]>> \o
             sorted_desc_unstable(SubSeq(keys, 1, best - 1)
                                      \o SubSeq(keys, best + 1, Len(keys)),
                                  count)

RECURSIVE sorted_desc(_, _)
\* sorted(keys, key=count.get, reverse=True): descending, and stable (keys
\* of equal count keep their order)
sorted_desc(keys, count) ==
    IF keys = <<>> THEN <<>>
    ELSE LET best == CHOOSE i \in 1..Len(keys) :
                        /\ \A j \in 1..Len(keys) : count[keys[j]] <= count[keys[i]]
                        /\ \A j \in 1..(i - 1) : count[keys[j]] < count[keys[i]]
         IN  <<keys[best]>> \o
             sorted_desc(SubSeq(keys, 1, best - 1) \o SubSeq(keys, best + 1, Len(keys)),
                         count)

\* [{"id": n, "count": count[n]} for n in top]
with_counts(top, count) == [i \in 1..Len(top) |-> [id |-> top[i], count |-> count[top[i]]]]

\* networkx.nodes_with_selfloops
nodes_with_selfloops(g) ==
    {n \in Range(g.nodes) : \E e \in Range(g.edges) : e.src = n /\ e.dst = n}

\* networkx.simple_cycles: one list [v] per node with a self-loop, and each
\* elementary cycle of two or more nodes once (only nodes with an edge in
\* and an edge out can lie on one).  The node such a cycle is
\* listed from is the first of its nodes in G.nodes; the order of the
\* cycles is left out (a set).
simple_cycles(g) ==
    LET N == {n \in Range(g.nodes) : \E e, f \in Range(g.edges) : e.src = n /\ f.dst = n}
        arc(a, b) == \E e \in Range(g.edges) : e.src = a /\ e.dst = b
        long == UNION {{c \in [1..k -> N] :
                           /\ \A i, j \in 1..k : i # j => c[i] # c[j]
                           /\ \A i \in 1..(k - 1) : arc(c[i], c[i + 1])
                           /\ arc(c[k], c[1])
                           /\ \A i \in 2..k : NodeIndex(g, c[1]) < NodeIndex(g, c[i])}
                       : k \in 2..Cardinality(N)}
    IN  {<<v>> : v \in nodes_with_selfloops(g)} \cup long

\* faulty variant: the cycles are not filtered
keep_all_cycles(all_simple_cycles, self_loop_nodes) == all_simple_cycles

\* [cycle for cycle in all_simple_cycles if not self_loop_nodes.intersection(cycle)]
filter_cycles(all_simple_cycles, self_loop_nodes) ==
    {cycle \in all_simple_cycles : self_loop_nodes \cap Range(cycle) = {}}

\* G.out_degree(n) == 0 and list(G.predecessors(n)) == ['0']
is_isolated(g, n) == out_degree(g, n) = 0 /\ predecessors(g, n) = << <<"0">> >>

calculate_statistics(g) ==
    LET rn == real_nodes(g)
        R == Range(rn)
        out_degrees == [n \in R |-> out_degree(g, n)]
        in_degrees == [n \in R |-> in_degree(g, n)]
        indirect_descendants_counts == [n \in R |-> Cardinality(descendants(g, n))]
        indirect_ancestors_counts == [n \in R |-> Cardinality(ancestors(g, n))]
        top_5_direct_descendants == Take(sorted_desc(rn, out_degrees), TopN)
        top_5_indirect_descendants == Take(sorted_desc(rn, indirect_descendants_counts), TopN)
        top_5_direct_ancestors == Take(sorted_desc(rn, in_degrees), TopN)
        top_5_indirect_ancestors == Take(sorted_desc(rn, indirect_ancestors_counts), TopN)
        isolated_rules == SelectSeq(rn, LAMBDA n : is_isolated(g, n))
        self_loop_nodes == nodes_with_selfloops(g)
        multi_node_cycles == filter_cycles(simple_cycles(g), self_loop_nodes)
    IN  [top_direct_descendants |-> with_counts(top_5_direct_descendants, out_degrees),
         top_indirect_descendants |->
             with_counts(top_5_indirect_descendants, indirect_descendants_counts),
         top_direct_ancestors |-> with_counts(top_5_direct_ancestors, in_degrees),
         top_indirect_ancestors |->
             with_counts(top_5_indirect_ancestors, indirect_ancestors_counts),
         isolated_rules |-> [i \in 1..Len(isolated_rules) |-> [id |-> isolated_rules[i]]],
         self_loops |-> {[id |-> n] : n \in self_loop_nodes},
         cycles |-> {IF cycle # <<>> THEN Append(cycle, cycle[1]) ELSE cycle
                        : cycle \in multi_node_cycles}]

Digits == {"0", "1", "2", "3", "4", "5", "6", "7", "8", "9"}

\* the value of a decimal digit
DigitValue(c) ==
    CASE c = "0" -> 0 [] c = "1" -> 1 [] c = "2" -> 2 [] c = "3" -> 3 [] c = "4" -> 4
      [] c = "5" -> 5 [] c = "6" -> 6 [] c = "7" -> 7 [] c = "8" -> 8 [] c = "9" -> 9

\* str.isdigit(): not empty and nothing but digits
isdigit(n) == n # <<>> /\ \A i \in 1..Len(n) : n[i] \in Digits

RECURSIVE int_of(_)
\* int(n) of a string of digits
int_of(n) ==
    IF n = <<>> THEN 0
    ELSE 10 * int_of(SubSeq(n, 1, Len(n) - 1)) + DigitValue(n[Len(n)])

\* math.ceil(actual_max_id / block_size) * block_size
round_up(actual_max_id, block_size) ==
    ((actual_max_id + block_size - 1) \div block_size) * block_size

\* a block id f"{start}-{end}" is kept as the pair of its two numbers
calculate_heatmap_data(g, block_size) ==
    LET all_rule_ids == {int_of(n) : n \in {m \in Range(g.nodes) : isdigit(m) /\ m # <<"0">>}}
    IN  IF all_rule_ids = {}
        THEN [metadata |-> [block_size |-> block_size, max_id |-> 0, total_blocks |-> 0],
              blocks |-> <<>>]
        ELSE LET actual_max_id == CHOOSE x \in all_rule_ids : \A y \in all_rule_ids : y <= x
                 rounded == round_up(actual_max_id, block_size)
                 dynamic_max_range == IF rounded < block_size THEN block_size ELSE rounded
                 total == dynamic_max_range \div block_size
                 blocks == [k \in 1..total |->
                              LET start_range == (k - 1) * block_size
                                  end_range == start_range + block_size - 1
                              IN  [id |-> <<start_range, end_range>>,
                                   count |-> Cardinality({rule_id \in all_rule_ids :
                                                start_range <= rule_id /\ rule_id <= end_range})]]
             IN  [metadata |-> [block_size |-> block_size, max_id |-> dynamic_max_range,
                                total_blocks |-> Len(blocks)],
                  blocks |-> blocks]

\* Analyzer.calculate_statistics on the loaded graph
analyze_statistics ==
    /\ pc = "loaded"
    /\ stats = None
    /\ stats' = Some(calculate_statistics(G))
    /\ UNCHANGED <<pc, file_idx, stack, n_rules, G, group_membership, overwrite_rules,
                   ow_idx, base_defined, ow_seen, skipped, heatmap,
                   xml_content, sanitized, artifacts, outcome, response>>

\* Analyzer.calculate_heatmap_data on the loaded graph
analyze_heatmap ==
    /\ pc = "loaded"
    /\ heatmap = None
    /\ xml_content = <<>>
    /\ sanitized = None
    /\ artifacts = NoArtifacts
    /\ outcome = NoOutcome
    /\ response = None
    /\ heatmap' = Some(calculate_heatmap_data(G, BlockSize))
    /\ UNCHANGED <<pc, file_idx, stack, n_rules, G, group_membership, overwrite_rules,
                   ow_idx, base_defined, ow_seen, skipped, stats,
                   xml_content, sanitized, artifacts, outcome, response>>

AnalyzerNext ==
    \/ analyze_statistics
    \/ analyze_heatmap

\* ---- the graphs the statistics are checked on
MaxEdges == 3

\* the edges a loaded graph is made of: any two nodes, of kind if_sid, and
\* from '0' also of kind root
EdgeChoices ==
    LET N == <<<<"0">>, <<"1">>, <<"2">>>>
    IN  [i \in 1..9 |-> [src |-> N[((i - 1) \div 3) + 1], dst |-> N[((i - 1) % 3) + 1],
                         relation_type |-> "if_sid"]]
        \o [i \in 1..3 |-> [src |-> <<"0">>, dst |-> N[i], relation_type |-> "root"]]

\* the orders in which '0', '1', '2' can have been added
NodeOrders ==
    {q \in [1..3 -> {<<"0">>, <<"1">>, <<"2">>}] : \A i, j \in 1..3 : i # j => q[i] # q[j]}

\* the lists of at most MaxEdges edges, parallel edges included
EdgeLists ==
    UNION {{[i \in 1..k |-> EdgeChoices[f[i]]] :
               f \in {h \in [1..k -> 1..Len(EdgeChoices)] :
                         \A i \in 1..(k - 1) : h[i] <= h[i + 1]}}
           : k \in 0..MaxEdges}

\* the state after Analyzer.__init__ loaded a graph
LoadedWith(graph) ==
    /\ pc = "loaded"
    /\ G = graph
    /\ file_idx = 0
    /\ stack = <<>>
    /\ n_rules = 0
    /\ group_membership = <<>>
    /\ overwrite_rules = <<>>
    /\ ow_idx = 1
    /\ base_defined = {}
    /\ ow_seen = <<>>
    /\ skipped = {}
    /\ stats = None
    /\ heatmap = None
    /\ xml_content = <<>>
    /\ sanitized = None
    /\ artifacts = NoArtifacts
    /\ outcome = NoOutcome
    /\ response = None

StatsInit ==
    \E order \in NodeOrders, edges \in EdgeLists :
        LoadedWith([nodes |-> order,
                    attr |-> [i \in 1..3 |-> <<order[i], EmptyAttrs>>],
                    edges |-> edges])

StatsSpec == StatsInit /\ [][AnalyzerNext]_vars

\* ---- the graphs the top lists are checked on: more real rules than TopN
MaxTopEdges == 2

TopNodes == [i \in 1..7 |-> <<<<"0">>, <<"1">>, <<"2">>, <<"3">>, <<"4">>, <<"5">>, <<"6">>>>[i]]

\* two orders in which the seven nodes can have been added
TopOrders == {TopNodes, [i \in 1..7 |-> TopNodes[<<4, 2, 7, 1, 6, 3, 5>>[i]]]}

\* edge lists over the first five nodes; the last two rules stay without edges
TopEdgeLists ==
    UNION {{[i \in 1..k |-> [src |-> TopNodes[((f[i] - 1) \div 5) + 1],
                             dst |-> TopNodes[((f[i] - 1) % 5) + 1],
                             relation_type |-> "if_sid"]] :
               f \in {h \in [1..k -> 1..25] : \A i \in 1..(k - 1) : h[i] <= h[i + 1]}}
           : k \in 0..MaxTopEdges}

TopInit ==
    \E order \in TopOrders, edges \in TopEdgeLists :
        LoadedWith([nodes |-> order,
                    attr |-> [i \in 1..7 |-> <<order[i], EmptyAttrs>>],
                    edges |-> edges])

TopSpec == TopInit /\ [][analyze_statistics]_vars

\* ---- the identifiers the heatmap is checked on
MaxIds == 3

NodeIds ==
    {<<"0">>, <<"5">>, <<"7">>, <<"0", "7">>, <<"1", "0">>, <<"1", "2">>, <<"2", "0">>,
     <<"a">>, <<"1", "a">>}

HeatInit ==
    \E ids \in UNION {{q \in [1..k -> NodeIds] : \A i, j \in 1..k : i < j => q[i] # q[j]}
                      : k \in 0..MaxIds} :
        LoadedWith([nodes |-> ids,
                    attr |-> [i \in DOMAIN ids |-> <<ids[i], EmptyAttrs>>],
                    edges |-> <<>>])

HeatSpec == HeatInit /\ [][AnalyzerNext]_vars

\* ------------------------------------------------------ the sanitizer
\* __remove_regex_field and __escape_amp on the wrapped text of a file

\* a letter without its case (re.IGNORECASE), for the letters of "regex"
fold(c) == CASE c = "R" -> "r" [] c = "E" -> "e" [] c = "G" -> "g" [] c = "X" -> "x"
             [] OTHER -> c

\* text has the characters of word at position i, compared without case
at_nocase(text, i, word) ==
    /\ i + Len(word) - 1 <= Len(text)
    /\ \A k \in 1..Len(word) : fold(text[i + k - 1]) = word[k]

\* text has the characters of word at position i
at(text, i, word) ==
    /\ i + Len(word) - 1 <= Len(text)
    /\ \A k \in 1..Len(word) : text[i + k - 1] = word[k]

\* the least element of a non-empty set of positions
least(S) == CHOOSE i \in S : \A j \in S : i <= j

\* where a match of REGEX_FINDER, r'<regex\s+.*?>(.*?)</regex>' with DOTALL
\* and IGNORECASE, that starts at position i ends; 0 if there is none
finder_match_end(text, i) ==
    IF ~(at_nocase(text, i, <<"<", "r", "e", "g", "e", "x">>) /\ i + 6 <= Len(text) /\ text[i + 6] \in WS)
    THEN 0
    ELSE LET closers == {j \in (i + 7)..Len(text) : text[j] = ">"}
         IN  IF closers = {} THEN 0
             ELSE LET ends == {c \in (least(closers) + 1)..Len(text) :
                                  at_nocase(text, c, <<"<", "/", "r", "e", "g", "e", "x", ">">>)}
                  IN  IF ends = {} THEN 0 ELSE least(ends) + Len(<<"<", "/", "r", "e", "g", "e", "x", ">">>) - 1

RECURSIVE finder_sub(_, _)
\* REGEX_FINDER.sub('', text) from position i on
finder_sub(text, i) ==
    IF i > Len(text) THEN <<>>
    ELSE LET e == finder_match_end(text, i)
         IN  IF e = 0 THEN <<text[i]>> \o finder_sub(text, i + 1)
             ELSE finder_sub(text, e + 1)

remove_regex_field(xml_string) == finder_sub(xml_string, 1)

\* the lookahead of REGEX_AMP, r"&(?!amp;|lt;|gt;)": what may follow an '&'
is_entity(text, i) ==
    \/ at(text, i + 1, <<"a", "m", "p", ";">>)
    \/ at(text, i + 1, <<"l", "t", ";">>)
    \/ at(text, i + 1, <<"g", "t", ";">>)

\* faulty variant: every '&' is escaped
escape_every_amp(xml_string) ==
    Flatten([i \in 1..Len(xml_string) |->
                IF xml_string[i] = "&" THEN <<"&", "a", "m", "p", ";">> ELSE <<xml_string[i]>>])

\* REGEX_AMP.sub("&amp;", xml_string)
escape_amp(xml_string) ==
    Flatten([i \in 1..Len(xml_string) |->
                IF xml_string[i] = "&" /\ ~is_entity(xml_string, i)
                THEN <<"&", "a", "m", "p", ";">> ELSE <<xml_string[i]>>])

wrap_with_root(content) == <<"<", "r", "o", "o", "t", ">">> \o content \o <<"<", "/", "r", "o", "o", "t", ">">>

\* lines 144-148 of build_graph_from_xml on the text of one file
sanitize ==
    /\ pc = "read"
    /\ LET wrapped_content == wrap_with_root(xml_content)
           stripped == remove_regex_field(wrapped_content)
       IN  sanitized' = Some([stripped |-> stripped, escaped |-> escape_amp(stripped)])
    /\ pc' = "sanitized"
    /\ UNCHANGED <<file_idx, stack, n_rules, G, group_membership, overwrite_rules,
                   ow_idx, base_defined, ow_seen, skipped, stats, heatmap,
                   xml_content, artifacts, outcome, response>>

\* ---- the texts the sanitizer is checked on
MaxPieces == 3

\* the pieces a file text is made of
TextPieces ==
    {<<"<", "r", "e", "g", "e", "x", ">">>, <<"<", "r", "e", "g", "e", "x", " ", "a", ">">>, <<"<", "R", "E", "G", "E", "X", " ", "a", ">">>, <<"<", "/", "r", "e", "g", "e", "x", ">">>, <<"<", "/", "R", "e", "g", "e", "x", ">">>,
     <<"x">>, <<"&">>, <<"&", "a", "m">>,
     <<"&", "a", "m", "p", ";">>, <<"&", "l", "t", ";">>, <<"&", "g", "t", ";">>}

FileTexts == UNION {{Flatten(q) : q \in [1..k -> TextPieces]} : k \in 0..MaxPieces}

SanitizeInit ==
    \E content \in FileTexts :
        /\ pc = "read"
        /\ xml_content = content
        /\ sanitized = None
        /\ file_idx = 1
        /\ stack = <<>>
        /\ n_rules = 0
        /\ G = EmptyGraph
        /\ group_membership = <<>>
        /\ overwrite_rules = <<>>
        /\ ow_idx = 1
        /\ base_defined = {}
        /\ ow_seen = <<>>
        /\ skipped = {}
        /\ stats = None
        /\ heatmap = None
        /\ artifacts = NoArtifacts
        /\ outcome = NoOutcome
        /\ response = None

SanitizeSpec == SanitizeInit /\ [][sanitize]_vars

\* ------------------------------------------------------ loading the artifacts
\* create_app (src/visualizer.py) and Analyzer.__init__ on the files the
\* earlier stages wrote.  What a file holds:
\*   graph    "missing" (os.path.isfile is false), "valid", "corrupt" (not a pickle)
\*   stats    "missing", "valid" (an object with the required keys),
\*            "missing_key" (an object without one of them), "malformed" (not
\*            JSON), "array" (a JSON array), "scalar" (null, a number, a boolean)
\*   heatmap  "missing", "valid" (any JSON document), "malformed"
GraphFiles == {"missing", "valid", "corrupt"}

StatsFiles == {"missing", "valid", "missing_key", "malformed", "array", "scalar"}

HeatmapFiles == {"missing", "valid", "malformed"}

\* json.load and the required_keys test on the statistics file: the
\* exception raised inside the try block, None if there is none
stats_exception(kind) ==
    CASE kind = "malformed" -> Some("JSONDecodeError")
      [] kind \in {"missing_key", "array"} -> Some("ValueError")
      [] kind = "scalar" -> Some("TypeError")
      [] OTHER -> None

\* how create_app ends: "app" when it returns the application, else the
\* name of the exception that leaves it
create_app(files) ==
    IF files.graph = "missing" THEN "FileNotFoundError"
    ELSE IF files.stats = "missing" THEN "FileNotFoundError"
    ELSE IF files.graph = "corrupt" THEN "UnpicklingError"
    ELSE IF stats_exception(files.stats) # None
         THEN IF stats_exception(files.stats)[1] \in {"JSONDecodeError", "ValueError"}
              THEN "RuntimeError"
              ELSE stats_exception(files.stats)[1]
    ELSE IF files.heatmap = "missing" THEN "FileNotFoundError"
    ELSE IF files.heatmap = "malformed" THEN "RuntimeError"
    ELSE "app"

\* how Analyzer(graph_path) ends: "analyzer" when the object is constructed
analyzer_init(files) ==
    IF files.graph = "missing" THEN "FileNotFoundError"
    ELSE IF files.graph = "corrupt" THEN "UnpicklingError"
    ELSE "analyzer"

call_create_app ==
    /\ pc = "artifacts"
    /\ outcome.create_app = None
    /\ outcome' = [outcome EXCEPT !.create_app = Some(create_app(artifacts))]
    /\ UNCHANGED <<pc, file_idx, stack, n_rules, G, group_membership, overwrite_rules,
                   ow_idx, base_defined, ow_seen, skipped, stats, heatmap,
                   xml_content, sanitized, artifacts, response>>

call_analyzer ==
    /\ pc = "artifacts"
    /\ outcome.Analyzer = None
    /\ outcome' = [outcome EXCEPT !.Analyzer = Some(analyzer_init(artifacts))]
    /\ UNCHANGED <<pc, file_idx, stack, n_rules, G, group_membership, overwrite_rules,
                   ow_idx, base_defined, ow_seen, skipped, stats, heatmap,
                   xml_content, sanitized, artifacts, response>>

LoadNext ==
    \/ call_create_app
    \/ call_analyzer

LoadInit ==
    \E g \in GraphFiles, st \in StatsFiles, h \in HeatmapFiles :
        /\ pc = "artifacts"
        /\ artifacts = [graph |-> g, stats |-> st, heatmap |-> h]
        /\ outcome = NoOutcome
        /\ file_idx = 0
        /\ stack = <<>>
        /\ n_rules = 0
        /\ G = EmptyGraph
        /\ group_membership = <<>>
        /\ overwrite_rules = <<>>
        /\ ow_idx = 1
        /\ base_defined = {}
        /\ ow_seen = <<>>
        /\ skipped = {}
        /\ stats = None
        /\ heatmap = None
        /\ xml_content = <<>>
        /\ sanitized = None
        /\ response = None

LoadSpec == LoadInit /\ [][LoadNext]_vars

\* ------------------------------------------------------ the edge query
\* POST /api/edges of the application create_app returned; G is the graph
\* it loaded.

\* relation_type(u, v): the kind of the first edge from u to v
relation_type(g, u, v) ==
    LET data == SelectSeq(g.edges, LAMBDA e : e.src = u /\ e.dst = v)
    IN  IF data = <<>> THEN "unknown" ELSE data[1].relation_type

make_edge(g, u, v) == [source |-> u, target |-> v, relation_type |-> relation_type(g, u, v)]

\* the body the route answers with; G.subgraph(node_ids).edges() gives one
\* (u, v) per edge, parallel edges included (their order is that of g.edges
\* here)
edges_route(g, node_ids) ==
    IF node_ids = {} THEN [nodes |-> <<>>, edges |-> <<>>]
    ELSE LET inside == SelectSeq(g.edges, LAMBDA e : e.src \in node_ids /\ e.dst \in node_ids)
         IN  [nodes |-> <<>>,
              edges |-> [i \in 1..Len(inside) |-> make_edge(g, inside[i].src, inside[i].dst)]]

\* the identifiers a request can name: the nodes and one unknown identifier
RequestIds == SUBSET {<<"0">>, <<"1">>, <<"2">>, <<"9">>}

post_edges(node_ids) ==
    /\ pc = "serving"
    /\ response = None
    /\ response' = Some([ids |-> node_ids, body |-> edges_route(G, node_ids)])
    /\ UNCHANGED <<pc, file_idx, stack, n_rules, G, group_membership, overwrite_rules,
                   ow_idx, base_defined, ow_seen, skipped, stats, heatmap,
                   xml_content, sanitized, artifacts, outcome>>

ServeInit ==
    \E edges \in EdgeLists :
        /\ pc = "serving"
        /\ G = [nodes |-> <<<<"0">>, <<"1">>, <<"2">>>>,
                attr |-> <<<<<<"0">>, EmptyAttrs>>, <<<<"1">>, EmptyAttrs>>,
                           <<<<"2">>, EmptyAttrs>>>>,
                edges |-> edges]
        /\ response = None
        /\ file_idx = 0
        /\ stack = <<>>
        /\ n_rules = 0
        /\ group_membership = <<>>
        /\ overwrite_rules = <<>>
        /\ ow_idx = 1
        /\ base_defined = {}
        /\ ow_seen = <<>>
        /\ skipped = {}
        /\ stats = None
        /\ heatmap = None
        /\ xml_content = <<>>
        /\ sanitized = None
        /\ artifacts = NoArtifacts
        /\ outcome = NoOutcome

ServeSpec == ServeInit /\ [][\E node_ids \in RequestIds : post_edges(node_ids)]_vars

\* ------------------------------------------------------ properties
Nodes == Range(G.nodes)

Edges == Range(G.edges)

Edge(s, t, k) == [src |-> s, dst |-> t, relation_type |-> k]

GroupKinds == {"if_group", "if_matched_group"}

RECURSIVE ReachableFrom(_, _)
\* the nodes reachable from the set S along the edges of g
ReachableFrom(g, S) ==
    LET T == S \cup {e.dst : e \in {x \in Range(g.edges) : x.src \in S}}
    IN  IF T = S THEN S ELSE ReachableFrom(g, T)

\* the step is one iteration of the overwrite pass
IsOverwriteStep == pc = "overwrite" /\ ow_idx' = ow_idx + 1

\* the step processes a <rule> element that is not an overwrite
IsBaseRuleStep == pc = "parse" /\ n_rules' = n_rules + 1 /\ overwrite_rules' = overwrite_rules

\* the maximal comma-free, non-empty runs of a text, as <<first, last>> positions
Runs(s) ==
    {r \in (1..Len(s)) \X (1..Len(s)) :
        /\ r[1] <= r[2]
        /\ \A k \in r[1]..r[2] : s[k] # ","
        /\ (r[1] = 1 \/ s[r[1] - 1] = ",")
        /\ (r[2] = Len(s) \/ s[r[2] + 1] = ",")}

\* the non-empty comma-separated segments of a text, left to right
Segments(s) ==
    LET ordered == CHOOSE q \in [1..Cardinality(Runs(s)) -> Runs(s)] :
                       \A a, b \in DOMAIN q : a < b => q[a][1] < q[b][1]
    IN  [i \in DOMAIN ordered |-> SubSeq(s, ordered[i][1], ordered[i][2])]

\* names of the enclosing <group> elements, outermost first, then the rule's
\* own declared groups
ExpectedGroups(frames, el) ==
    Flatten([i \in 1..Len(frames) |-> Segments(Get(frames[i].name, <<>>))])
    \o Flatten([i \in 1..Len(el.group) |-> Segments(el.group[i])])

\* C1: when the build has finished, every node other than the synthetic root
\* '0' has at least one incoming edge
C1_NonRootInDegree ==
    pc = "done" => \A n \in Nodes \ {synthetic_root} : \E e \in Edges : e.dst = n

\* a finished graph in which one rule hangs under the root and another node
\* is entered only by a relationship edge
C1_Witness ==
    /\ pc = "done"
    /\ \E n, m \in Nodes \ {synthetic_root} :
          /\ Edge(synthetic_root, n, "root") \in Edges
          /\ \E e \in Edges : e.dst = m /\ e.relation_type # "root"
          /\ \A e \in Edges : e.dst = m => e.relation_type # "root"

\* C2: when the build has finished, the synthetic root '0' has no incoming
\* edge of any kind, self-loops included
C2_RootNoIncoming ==
    pc = "done" => \A e \in Edges : e.dst # synthetic_root

\* C3: when the build has finished, every node is reachable from the
\* synthetic root '0' by a directed path
C3_AllReachable ==
    pc = "done" => Nodes \subseteq ReachableFrom(G, {synthetic_root})

\* C4: an iteration of the overwrite pass leaves the node list, the edge
\* list, every node's groups attribute and the group index as they were
C4_OverwriteFrame ==
    [][IsOverwriteStep =>
          /\ G'.nodes = G.nodes
          /\ G'.edges = G.edges
          /\ \A n \in Nodes : NodeAttrs(G', n).groups = NodeAttrs(G, n).groups
          /\ group_membership' = group_membership]_vars

\* an overwrite has just been applied to an existing rule that has edges
C4_Witness ==
    /\ pc = "overwrite"
    /\ ow_idx > 1
    /\ LET element == overwrite_rules[ow_idx - 1][1]
       IN  /\ element.id # None
           /\ element.id[1] \in base_defined
           /\ NodeAttrs(G, element.id[1]).file = Some(Basename(overwrite_rules[ow_idx - 1][2]))
           /\ \E e \in Edges : e.dst = element.id[1] \/ e.src = element.id[1]

\* C5: an iteration of the overwrite pass whose target was never defined by a
\* base rule changes nothing in the graph
C5_UndefinedTargetDropped ==
    [][(IsOverwriteStep /\ (overwrite_rules[ow_idx][1].id = None
                            \/ overwrite_rules[ow_idx][1].id[1] \notin base_defined))
          => G' = G]_vars

\* C6: processing a base rule whose identifier an earlier base rule defined
\* changes neither the graph nor the group index
C6_DuplicateRejected ==
    [][(IsBaseRuleStep /\ base_defined' = base_defined)
          => (G' = G /\ group_membership' = group_membership)]_vars

\* two base rules with one identifier have been processed
C6_Witness ==
    /\ n_rules = 2
    /\ overwrite_rules = <<>>
    /\ Cardinality(base_defined) = 1
    /\ \E n \in Nodes : n \in base_defined /\ NodeAttrs(G, n).groups # None

\* C7: processing the first base definition of r puts an edge t -> r of kind
\* if_sid (if_matched_sid) into the graph for every target t of the field,
\* and no step takes an edge out again
C7_SidEdgesAdded ==
    [][/\ \A el \in RuleElements :
             (parse_rule_base(el) /\ rule_id_of(el) \notin base_defined) =>
                 /\ TruthyText(el.if_sid) =>
                       \A t \in Range(ReSplit(Strip(el.if_sid[1]))) :
                           Edge(t, rule_id_of(el), "if_sid") \in Range(G'.edges)
                 /\ TruthyText(el.if_matched_sid) =>
                       \A t \in Range(ReSplit(Strip(el.if_matched_sid[1]))) :
                           Edge(t, rule_id_of(el), "if_matched_sid") \in Range(G'.edges)
       /\ Edges \subseteq Range(G'.edges)]_vars

\* C8: processing the first base definition of a rule gives its node the
\* groups of the enclosing group elements, outermost first, followed by the
\* rule's own groups, empty segments removed
C8_GroupsAttribute ==
    [][\A el \in RuleElements :
          (parse_rule_base(el) /\ rule_id_of(el) \notin base_defined) =>
              /\ HasNode(G', rule_id_of(el))
              /\ NodeAttrs(G', rule_id_of(el)).groups = Some(ExpectedGroups(stack, el))]_vars

\* C9: a step adds an if_group (if_matched_group) edge only into the rule it
\* is processing and only from a rule the group index lists, at that moment,
\* under a group the rule's field names; earlier edges stay as they are
C9_GroupEdgesNotRetroactive ==
    [][/\ Len(G'.edges) >= Len(G.edges)
       /\ SubSeq(G'.edges, 1, Len(G.edges)) = G.edges
       /\ \A i \in (Len(G.edges) + 1)..Len(G'.edges) :
             G'.edges[i].relation_type \in GroupKinds =>
                \E el \in RuleElements :
                   /\ parse_rule_base(el)
                   /\ G'.edges[i].dst = rule_id_of(el)
                   /\ LET field == IF G'.edges[i].relation_type = "if_group"
                                   THEN el.if_group ELSE el.if_matched_group
                      IN  /\ TruthyText(field)
                          /\ \E g \in Range(ReSplit(Strip(field[1]))) :
                                G'.edges[i].src \in Range(gm_get(group_membership', g))]_vars

\* a rule has an if_group edge from a member of a group, and a member of that
\* group registered later has no edge into it
C9_Witness ==
    \E e \in Edges : \E k \in 1..Len(group_membership) :
        /\ e.relation_type = "if_group"
        /\ e.src \in Range(group_membership[k][2])
        /\ \E m \in Range(group_membership[k][2]) :
              /\ m # e.src
              /\ NodeIndex(G, m) > NodeIndex(G, e.dst)
              /\ \A x \in Edges : ~(x.src = m /\ x.dst = e.dst)

\* C10: no if_group (if_matched_group) edge leads from a rule to itself
C10_NoSelfGroupEdge ==
    \A e \in Edges : e.relation_type \in GroupKinds => e.src # e.dst

\* ------------------------------------------------------ overwrites
\* the position in ow_seen of the last overwrite element of identifier id
LastSeen(id) == CHOOSE i \in DOMAIN ow_seen :
                    /\ ow_seen[i].id = id
                    /\ \A j \in DOMAIN ow_seen : ow_seen[j].id = id => j <= i

\* C11: once the overwrite pass is over, every overwrite element met in a
\* parsed file whose identifier is that of a base rule element met in a
\* parsed file has been applied to that rule, whether it was met before or
\* after the base rule: the node exists and its file is the file of the
\* last such overwrite.
C11_OverwriteOrderIndependent ==
    pc \in {"children", "done"} =>
        \A i \in DOMAIN ow_seen :
            LET e == ow_seen[i]
            IN  (e.id # None /\ e.id[1] \in base_defined) =>
                    /\ HasNode(G, e.id[1])
                    /\ NodeAttrs(G, e.id[1]).file
                           = Some(Basename(ow_seen[LastSeen(e.id)].file))

\* an overwrite met before the base rule of its identifier, which was then
\* defined in another file, has been applied
C11_Witness ==
    /\ pc = "done"
    /\ \E i \in DOMAIN ow_seen :
          LET e == ow_seen[i]
          IN  /\ e.early
              /\ e.id[1] \in base_defined
              /\ e.file # XmlFile(file_idx)
              /\ NodeAttrs(G, e.id[1]).groups # None
              /\ NodeAttrs(G, e.id[1]).file = Some(Basename(e.file))

\* C12: a step that processes an overwrite element during the parse pass
\* leaves the graph and the group index as they are and appends exactly one
\* entry, that element with the current file, to the overwrite queue.
C12_OverwriteQueuedOnly ==
    [][(pc = "parse" /\ Len(ow_seen') = Len(ow_seen) + 1) =>
          /\ G' = G
          /\ group_membership' = group_membership
          /\ \E el \in RuleElements :
                /\ is_overwrite(el)
                /\ el.id = ow_seen'[Len(ow_seen')].id
                /\ overwrite_rules' = Append(overwrite_rules, <<el, XmlFile(file_idx)>>)]_vars

\* an overwrite with if_sid, if_group and group fields is queued, and there
\* is no edge into its identifier nor a group it is registered under
C12_Witness ==
    \E i \in DOMAIN overwrite_rules :
        LET el == overwrite_rules[i][1]
        IN  /\ TruthyText(el.if_sid) /\ TruthyText(el.if_group) /\ el.group # <<>>
            /\ HasNode(G, el.if_sid[1])
            /\ \A e \in Edges : e.dst # el.id[1]
            /\ \A k \in DOMAIN group_membership :
                  el.id[1] \notin Range(group_membership[k][2])

\* the overwrite element supplies a non-empty description
SuppliesDescription(el) == \E k \in DOMAIN el.description : el.description[k] # ""

\* the positions of the queue whose element names the node n
QueuedFor(n) == {i \in DOMAIN overwrite_rules : overwrite_rules[i][1].id = Some(n)}

\* the greatest element of a non-empty set of positions
Last(S) == CHOOSE i \in S : \A j \in S : j <= i

\* what one iteration of the pass does to an existing target
C13_Step ==
    IsOverwriteStep =>
        LET el == overwrite_rules[ow_idx][1]
            ow_file == overwrite_rules[ow_idx][2]
        IN  (el.id # None /\ HasNode(G, el.id[1])) =>
              LET old == NodeAttrs(G, el.id[1])
                  new == NodeAttrs(G', el.id[1])
              IN  /\ new.description # old.description => SuppliesDescription(el)
                  /\ SuppliesDescription(el) =>
                        new.description =
                          Some(Some(JoinSpace(SelectSeq(el.description, LAMBDA d : d # ""))))
                  /\ new.level # old.level => el.level # None
                  /\ TruthyStr(el.level) => new.level = Some(el.level)
                  /\ new.maxsize # old.maxsize => el.maxsize # None
                  /\ TruthyStr(el.maxsize) => new.maxsize = Some(el.maxsize)
                  /\ new.file = Some(Basename(ow_file))

\* what the pass leaves on a node that several queue entries name
C13_LastWins ==
    pc \in {"children", "done"} =>
        \A n \in Nodes :
            LET all == QueuedFor(n)
                with_level == {i \in all : TruthyStr(overwrite_rules[i][1].level)}
                with_desc == {i \in all : SuppliesDescription(overwrite_rules[i][1])}
                a == NodeAttrs(G, n)
            IN  /\ all # {} => a.file = Some(Basename(overwrite_rules[Last(all)][2]))
                /\ with_level # {} =>
                      a.level = Some(overwrite_rules[Last(with_level)][1].level)
                /\ (with_desc # {} /\ n # synthetic_root) =>
                      a.description =
                        Some(extract_rule_description(
                                overwrite_rules[Last(with_desc)][1].description))

\* C13: an iteration of the overwrite pass on an existing target changes the
\* description only if the overwrite supplies a non-empty one (and then to
\* it), changes level and maxsize only if the overwrite has them (and then to
\* them), and sets file to the overwrite's file; after the pass a node named
\* by several queue entries carries, for each attribute, the value of the
\* last entry that supplies it.
C13_OverwritePatch == [][C13_Step]_vars /\ []C13_LastWins

\* two overwrites of one existing rule from different files: the first has a
\* description, the second a level and an empty description; the node has
\* the description of the first, the level and the file of the second
C13_Witness ==
    /\ pc = "done"
    /\ \E i, j \in DOMAIN overwrite_rules :
          LET e1 == overwrite_rules[i][1]
              e2 == overwrite_rules[j][1]
          IN  /\ i < j /\ j = Len(overwrite_rules)
              /\ e1.id = e2.id /\ e1.id # None /\ HasNode(G, e1.id[1])
              /\ overwrite_rules[i][2] # overwrite_rules[j][2]
              /\ SuppliesDescription(e1) /\ ~SuppliesDescription(e2)
              /\ e2.description # <<>> /\ TruthyStr(e2.level)
              /\ LET a == NodeAttrs(G, e1.id[1])
                  IN  /\ a.description = Some(extract_rule_description(e1.description))
                      /\ a.level = Some(e2.level)
                      /\ a.file = Some(Basename(overwrite_rules[j][2]))

\* ------------------------------------------------------ root synthesis, again
\* C14: when a base rule element of identifier '0' (written, or by default)
\* has been processed, root synthesis leaves the description and the groups
\* of node '0' as they were.
C14_RealZeroKept ==
    [][(pc = "overwrite" /\ pc' = "children" /\ synthetic_root \in base_defined) =>
          /\ NodeAttrs(G', synthetic_root).description
                 = NodeAttrs(G, synthetic_root).description
          /\ NodeAttrs(G', synthetic_root).groups
                 = NodeAttrs(G, synthetic_root).groups]_vars

\* ------------------------------------------------------ failing files
\* C15: no failure while a file is opened and read ends the build: the
\* build is never left by an exception.
C15_ReadFailureCaught == pc # "raised"

\* a file that failed to parse contributed nothing
C16_Step ==
    (file_idx' \in skipped' \ skipped) =>
        /\ G' = G
        /\ group_membership' = group_membership
        /\ overwrite_rules' = overwrite_rules
        /\ pc' = "files"

\* nothing in the graph or in the queue comes from a file that failed to
\* parse, and the loop goes on to the next file if there is one
C16_NothingFromSkipped ==
    /\ \A k \in skipped :
          /\ \A n \in Nodes : NodeAttrs(G, n).file # Some(Basename(XmlFile(k)))
          /\ \A i \in DOMAIN overwrite_rules : overwrite_rules[i][2] # XmlFile(k)
    /\ (pc = "files" /\ file_idx \in skipped /\ file_idx < MaxFiles) => ENABLED open_file

\* C16: the step on a file whose sanitized text fails to parse changes
\* neither the graph nor the group index nor the overwrite queue and stays
\* in the loop over the files; no node or queue entry ever comes from that
\* file, and the next file can be opened.
C16_ParseFailureSkipsFile == [][C16_Step]_vars /\ []C16_NothingFromSkipped

\* the first file failed to parse, the second was processed and gave a node
C16_Witness ==
    /\ pc = "done"
    /\ skipped = {1}
    /\ \E n \in Nodes : NodeAttrs(G, n).file = Some(Basename(XmlFile(2)))

\* ------------------------------------------------------ statistics
\* the identifiers listed under a key of the statistics
Reported(list) == {list[i].id : i \in DOMAIN list}

\* C17: in the statistics, no node of a reported multi-node cycle is in the
\* reported self-loop set.
C17_CyclesAvoidSelfLoops ==
    stats # None =>
        \A cycle \in stats[1].cycles :
            \A i \in DOMAIN cycle : [id |-> cycle[i]] \notin stats[1].self_loops

\* a graph with a self-loop and with a cycle through two other nodes: both
\* are reported
C17_Witness ==
    /\ stats # None
    /\ stats[1].self_loops # {}
    /\ \E cycle \in stats[1].cycles : Len(cycle) = 3 /\ cycle[1] = cycle[3]

\* C18: the self_loops of the statistics are exactly the nodes other than
\* '0' that have an edge to themselves.
C18_SelfLoopsAreRealRules ==
    stats # None =>
        stats[1].self_loops =
            {[id |-> n] : n \in {m \in Nodes \ {synthetic_root} :
                                    \E e \in Edges : e.src = m /\ e.dst = m}}

\* C20: a node other than '0' is listed in isolated_rules exactly when it
\* has no outgoing edge, has an incoming edge, and each of its incoming
\* edges is an edge of kind root from '0'.
C20_IsolatedRules ==
    stats # None =>
        \A n \in Nodes \ {synthetic_root} :
            n \in Reported(stats[1].isolated_rules) <=>
                /\ \A e \in Edges : e.src # n
                /\ \E e \in Edges : e.dst = n
                /\ \A e \in Edges : e.dst = n => e = Edge(synthetic_root, n, "root")

\* ------------------------------------------------------ heatmap
RECURSIVE SumCounts(_)
\* the sum of the counts of a list of blocks
SumCounts(blocks) ==
    IF blocks = <<>> THEN 0 ELSE blocks[1].count + SumCounts(Tail(blocks))

\* C19: the block counts of the heatmap add up to the number of nodes whose
\* identifier is not '0' and consists of digits only.
C19_HeatmapCountsSum ==
    heatmap # None =>
        SumCounts(heatmap[1].blocks)
            = Cardinality({n \in Nodes : n # synthetic_root /\ n # <<>>
                                          /\ \A i \in DOMAIN n : n[i] \in Digits})

\* ------------------------------------------------------ top lists
\* the nodes other than '0'
RealRules == Nodes \ {synthetic_root}

\* the four counts of a real rule, from the edges
OutCount(n) == Cardinality({i \in DOMAIN G.edges : G.edges[i].src = n})

InCount(n) == Cardinality({i \in DOMAIN G.edges : G.edges[i].dst = n})

DescendantCount(n) == Cardinality(ReachableFrom(G, {n}) \ {n})

AncestorCount(n) == Cardinality({m \in Nodes \ {n} : n \in ReachableFrom(G, {m})})

\* list is a top list for the count function cnt
IsTopList(list, cnt(_)) ==
    /\ Len(list) = IF Cardinality(RealRules) < TopN THEN Cardinality(RealRules) ELSE TopN
    /\ \A i \in DOMAIN list :
          /\ list[i].id \in RealRules
          /\ list[i].count = cnt(list[i].id)
    /\ \A i, j \in DOMAIN list :
          i < j => /\ list[i].id # list[j].id
                   /\ list[i].count >= list[j].count
                   /\ list[i].count = list[j].count =>
                         NodeIndex(G, list[i].id) < NodeIndex(G, list[j].id)
    /\ \A r \in RealRules \ Reported(list) :
          \A i \in DOMAIN list :
              /\ cnt(r) <= list[i].count
              /\ cnt(r) = list[i].count => NodeIndex(G, list[i].id) < NodeIndex(G, r)

\* C21: each of the four top lists has min(5, number of real rules) entries,
\* all of them real rules with their count, in non-increasing count; no
\* omitted real rule has a greater count than a listed one; rules of equal
\* count are in the order of G.nodes, listed ones before omitted ones.
C21_TopLists ==
    stats # None =>
        /\ IsTopList(stats[1].top_direct_descendants, OutCount)
        /\ IsTopList(stats[1].top_indirect_descendants, DescendantCount)
        /\ IsTopList(stats[1].top_direct_ancestors, InCount)
        /\ IsTopList(stats[1].top_indirect_ancestors, AncestorCount)

\* six real rules, '0' is not the last node and has as many out-edges as
\* the first listed rule, the counts of the out-degree list differ, and an
\* omitted rule ties with the last listed one
C21_Witness ==
    /\ stats # None
    /\ Cardinality(RealRules) > TopN
    /\ NodeIndex(G, synthetic_root) < Len(G.nodes)
    /\ LET list == stats[1].top_direct_descendants
       IN  /\ Len(list) = TopN
           /\ list[1].count > list[TopN].count
           /\ \E r \in RealRules \ Reported(list) : OutCount(r) = list[TopN].count
           /\ OutCount(synthetic_root) >= list[1].count

\* ------------------------------------------------------ the finished graph
\* C22: in the finished graph the children_ids of every node hold exactly
\* the targets of its out-edges, each once.
C22_ChildrenIds ==
    pc = "done" =>
        \A n \in Nodes :
            LET children_ids == NodeAttrs(G, n).children_ids
            IN  /\ children_ids # None
                /\ Range(children_ids[1]) = {e.dst : e \in {x \in Edges : x.src = n}}
                /\ Len(children_ids[1]) = Cardinality(Range(children_ids[1]))

\* a node that exists only as a reference target has two parallel edges to
\* one child, and the root has children
C22_Witness ==
    /\ pc = "done"
    /\ NodeAttrs(G, synthetic_root).children_ids \notin {None, Some(<<>>)}
    /\ \E n \in Nodes \ {synthetic_root} :
          /\ NodeAttrs(G, n).groups = None
          /\ \E i, j \in DOMAIN G.edges :
                i < j /\ G.edges[i].src = n /\ G.edges[j].src = n
                      /\ G.edges[i].dst = G.edges[j].dst
          /\ Len(NodeAttrs(G, n).children_ids[1]) = 1

\* the rules registered, after the step, under a group that the text names
NamedMembers(text) ==
    {m \in Nodes' :
        \E k \in DOMAIN group_membership', name \in Range(ReSplit(Strip(text))) :
            group_membership'[k][1] = Strip(name) /\ m \in Range(group_membership'[k][2])}

\* the edges a step appended
NewEdges == {G'.edges[i] : i \in (Len(G.edges) + 1)..Len(G'.edges)}

\* C23: no step changes or removes an edge that is in the graph, and the
\* step that defines a rule r appends, for every relation kind, an edge
\* s -> r of that kind for every source s its field of that kind names.
C23_EdgePerKind ==
    [][/\ Len(G'.edges) >= Len(G.edges)
       /\ G'.edges = G.edges \/ \A i \in DOMAIN G.edges : G'.edges[i] = G.edges[i]
       /\ \A el \in RuleElements :
             (IsBaseRuleStep /\ ~is_overwrite(el) /\ ~HasNode(G, rule_id_of(el))
                             /\ base_defined' = base_defined \cup {rule_id_of(el)}
                             /\ parse_rule_base(el)) =>
                 LET r == rule_id_of(el)
                 IN  /\ TruthyText(el.if_sid) =>
                           \A t \in Range(sid_list(el.if_sid[1])) :
                               Edge(t, r, "if_sid") \in NewEdges
                     /\ TruthyText(el.if_matched_sid) =>
                           \A t \in Range(sid_list(el.if_matched_sid[1])) :
                               Edge(t, r, "if_matched_sid") \in NewEdges
                     /\ TruthyText(el.if_group) =>
                           \A m \in NamedMembers(el.if_group[1]) :
                               Edge(m, r, "if_group") \in NewEdges
                     /\ TruthyText(el.if_matched_group) =>
                           \A m \in NamedMembers(el.if_matched_group[1]) :
                               Edge(m, r, "if_matched_group") \in NewEdges]_vars

\* a rule has an if_sid edge and an if_group edge from one other rule
C23_Witness ==
    \E s, r \in Nodes :
        /\ s # r
        /\ Edge(s, r, "if_sid") \in Edges
        /\ Edge(s, r, "if_group") \in Edges

\* C28: every node of the finished graph other than '0' was defined by a
\* base rule element and has groups, description, level and file attributes.
C28_NoReferenceOnlyNodes ==
    pc = "done" =>
        \A n \in Nodes \ {synthetic_root} :
            /\ n \in base_defined
            /\ NodeAttrs(G, n).groups # None
            /\ NodeAttrs(G, n).description # None
            /\ NodeAttrs(G, n).level # None
            /\ NodeAttrs(G, n).file # None

\* C29: the finished graph has no two edges of one source, one target and
\* one relation kind.
C29_NoDuplicateEdges ==
    pc = "done" =>
        \A i, j \in DOMAIN G.edges : i < j => G.edges[i] # G.edges[j]

\* C30: the finished graph has no edge whose source is the empty identifier
\* and no node of the empty identifier.
C30_NoEmptySource ==
    pc = "done" => (<<>> \notin Nodes /\ \A e \in Edges : e.src # <<>>)

\* ------------------------------------------------------ sanitizer
\* a regex element starts at position i of text: "<regex", in any letter
\* case, then '>' or white space, and a closing tag somewhere after it
RegexElementAt(text, i) ==
    /\ i + 6 <= Len(text)
    /\ \A k \in 1..6 : fold(text[i + k - 1]) = <<"<", "r", "e", "g", "e", "x">>[k]
    /\ text[i + 6] \in WS \cup {">"}
    /\ \E c \in (i + 7)..Len(text) :
          /\ c + 7 <= Len(text)
          /\ \A k \in 1..8 : fold(text[c + k - 1]) = <<"<", "/", "r", "e", "g", "e", "x", ">">>[k]

\* C24: after __remove_regex_field no regex element is left in the text.
C24_NoRegexElementLeft ==
    sanitized # None =>
        \A i \in 1..Len(sanitized[1].stripped) : ~RegexElementAt(sanitized[1].stripped, i)

\* the '&' at position i of text is followed by amp; or lt; or gt;
Escaped(text, i) ==
    \E w \in {<<"a", "m", "p", ";">>, <<"l", "t", ";">>, <<"g", "t", ";">>} :
        /\ i + Len(w) <= Len(text)
        /\ SubSeq(text, i + 1, i + Len(w)) = w

\* the positions of the '&' of text that are not followed by one of them
Bare(text) == {i \in 1..Len(text) : text[i] = "&" /\ ~Escaped(text, i)}

\* C25: after __escape_amp every '&' is followed by amp;, lt; or gt;; the
\* output is the input with amp; inserted after each '&' that was not
\* followed by one of them and nothing else changed; escaping the output
\* again gives the output.
C25_AmpersandEscaping ==
    sanitized # None =>
        LET in == sanitized[1].stripped
            out == sanitized[1].escaped
            shift(i) == 4 * Cardinality({j \in Bare(in) : j < i})
        IN  /\ \A i \in 1..Len(out) : out[i] = "&" => Escaped(out, i)
            /\ Len(out) = Len(in) + 4 * Cardinality(Bare(in))
            /\ \A i \in 1..Len(in) : out[i + shift(i)] = in[i]
            /\ escape_amp(out) = out

\* the text has an '&amp;' and, after it, an '&' that is not escaped
C25_Witness ==
    /\ sanitized # None
    /\ LET in == sanitized[1].stripped
       IN  \E i \in 1..Len(in), j \in Bare(in) :
              /\ i < j
              /\ in[i] = "&" /\ Escaped(in, i)
              /\ SubSeq(in, i + 1, i + 4) = <<"a", "m", "p", ";">>
    /\ sanitized[1].escaped # sanitized[1].stripped

\* ------------------------------------------------------ loading
\* the artifacts that are not as they should be
Faulty == {a \in {"graph", "stats", "heatmap"} : artifacts[a] # "valid"}

\* C26: create_app returns the application only when the three files are
\* sound; when one file alone is at fault it raises FileNotFoundError if
\* that file is missing and RuntimeError if it is a statistics or heatmap
\* file that is present but not valid JSON (or statistics without the
\* required keys); Analyzer raises FileNotFoundError when the graph file is
\* missing.
C26_LoadFailures ==
    /\ outcome.create_app # None =>
          LET result == outcome.create_app[1]
          IN  /\ result = "app" <=> Faulty = {}
              /\ \A a \in {"graph", "stats", "heatmap"} :
                    Faulty = {a} =>
                        /\ artifacts[a] = "missing" => result = "FileNotFoundError"
                        /\ (a # "graph" /\ artifacts[a] # "missing") => result = "RuntimeError"
    /\ outcome.Analyzer # None =>
          (artifacts.graph = "missing" => outcome.Analyzer[1] = "FileNotFoundError")

\* ------------------------------------------------------ edge query
\* how many entries of the reply are u -> v of kind k
Entries(u, v, k) ==
    Cardinality({i \in DOMAIN response[1].body.edges :
                    response[1].body.edges[i] = [source |-> u, target |-> v,
                                                 relation_type |-> k]})

\* how many edges of the graph are u -> v of kind k
Parallel(u, v, k) == Cardinality({i \in DOMAIN G.edges : G.edges[i] = Edge(u, v, k)})

====
